---- MODULE Spec2Model ----
(***************************************************************************)
(* Model of two parts of GPXSee:                                           *)
(*   - the Mapsforge style rule engine (src/map/mapsforge/style.h):        *)
(*     Style::Rule::Filter (match, isTautology) and the composition of a   *)
(*     Style::Rule out of its parent (setType, setClosed, setMinZoom,      *)
(*     setMaxZoom, addFilter);                                             *)
(*   - the parser dispatch of the Data constructor (src/data/data.cpp).    *)
(* Three specifications share the module: FilterSpec (Filter::match as a   *)
(* function of a filter and a tag vector), Spec (rule composition) and     *)
(* DataSpec (the Data constructor).                                        *)
(***************************************************************************)
EXTENDS Integers, Sequences, FiniteSets, TLC

VARIABLES
    \* FilterSpec: one Filter, one tag vector, and what the calls returned
    \* (<<>> before the call, <<b>> once it returned b)
    filter, tags, matchResult, tautResult,
    \* Spec: the rule being compiled, the rule it was copied from, and the
    \* history of the setter calls made on it since the copy
    rule, parent, declTypeBits, declClosedBits, declMins, declMaxs, added,
    \* DataSpec: the inputs of one Data::Data call, its position and fields
    suffix, accepts, poi, opens, geojson, pc, it, tried, processed,
    _valid, _errorLine, _errorString

fvars == <<filter, tags, matchResult, tautResult>>
rvars == <<rule, parent, declTypeBits, declClosedBits, declMins, declMaxs,
           added>>
dvars == <<suffix, accepts, poi, opens, geojson, pc, it, tried, processed,
           _valid, _errorLine, _errorString>>
vars == <<fvars, rvars, dvars>>

-----------------------------------------------------------------------------
(* Bounds of the model *)

\* longest key list and value list of a Filter
MaxLen == 2
\* longest tag vector of a feature
MaxTags == 2
\* most filters one rule stores, and most addFilter calls on one rule
MaxFilters == 3
\* most parsers that accept one input file
MaxAccepting == 1

-----------------------------------------------------------------------------
(* Style::Rule::Filter *)

\* the wildcard key: keyMatches tests !key
WildKey == 0
\* the wildcard value: an empty QByteArray (valueMatches tests !ba.size())
WildVal == <<>>

\* QByteArray values are byte sequences
ByteArrays == {<<>>, <<97>>, <<98>>}
\* interned tag keys of features are non-zero
TagKeys == {1, 2}
FilterKeys == {WildKey} \cup TagKeys

SeqsUpTo(S, n) == UNION {[1..k -> S] : k \in 0..n}
NonEmptySeqsUpTo(S, n) == UNION {[1..k -> S] : k \in 1..n}

RangeOf(s) == {s[i] : i \in 1..Len(s)}

Tags == [key : TagKeys, value : ByteArrays]
TagVectors == SeqsUpTo(Tags, MaxTags)

\* a filter names at least one key; its value list is empty when the only
\* value declared was the negation mark
Filters == [_keys : NonEmptySeqsUpTo(FilterKeys, MaxLen),
            _vals : SeqsUpTo(ByteArrays, MaxLen),
            _neg : BOOLEAN]

\* mutant: the wildcard test hoisted out of the loop over the tags
keyMatchesHoisted(f, t) ==
    \E i \in 1..Len(f._keys) :
        \/ f._keys[i] = WildKey
        \/ \E j \in 1..Len(t) : f._keys[i] = t[j].key

\* the nested loops return true at the first (i, j) that passes the test
keyMatches(f, t) ==
    \E i \in 1..Len(f._keys) :
        \E j \in 1..Len(t) :
            f._keys[i] = WildKey \/ f._keys[i] = t[j].key

valueMatches(f, t) ==
    \E i \in 1..Len(f._vals) :
        \E j \in 1..Len(t) :
            Len(f._vals[i]) = 0 \/ f._vals[i] = t[j].value

\* mutant: the negated branch returns the inverted value test
matchNegInverted(f, t) ==
    IF f._neg
        THEN IF ~keyMatches(f, t) THEN TRUE ELSE ~valueMatches(f, t)
        ELSE keyMatches(f, t) /\ valueMatches(f, t)

match(f, t) ==
    IF f._neg
        THEN IF ~keyMatches(f, t) THEN TRUE ELSE valueMatches(f, t)
        ELSE keyMatches(f, t) /\ valueMatches(f, t)

isTautology(f) ==
    /\ ~f._neg
    /\ WildKey \in RangeOf(f._keys)
    /\ WildVal \in RangeOf(f._vals)

-----------------------------------------------------------------------------
(* Style::Rule *)

AnyType == 0
NodeType == 1
WayType == 2
InvalidType == 3

AnyClosed == 0
YesClosed == 1
NoClosed == 2
InvalidClosed == 3

\* Rule() : _zooms(0, 127)
DefaultMinZoom == 0
DefaultMaxZoom == 127

\* what a rule element can declare; the Invalid values only arise by composition
DeclaredTypes == {AnyType, NodeType, WayType}
DeclaredCloseds == {AnyClosed, YesClosed, NoClosed}
DeclaredZooms == {10, 12}
\* the kinds a feature can have
FeatureTypes == {NodeType, WayType}
FeatureCloseds == {YesClosed, NoClosed}
ZoomLevels == DefaultMinZoom..DefaultMaxZoom
\* the zoom levels queries are probed at
ProbeZooms == {0, 9, 10, 11, 12, 13, 127}

\* the filters rule elements declare
PlainFilter == [_keys |-> <<1>>, _vals |-> <<<<97>>>>, _neg |-> FALSE]
NegFilter == [_keys |-> <<1>>, _vals |-> <<<<97>>>>, _neg |-> TRUE]
NegWildFilter == [_keys |-> <<WildKey>>, _vals |-> <<WildVal>>, _neg |-> TRUE]
WildFilter == [_keys |-> <<WildKey>>, _vals |-> <<WildVal>>, _neg |-> FALSE]
MixedWildFilter ==
    [_keys |-> <<1, WildKey>>, _vals |-> <<<<97>>, WildVal>>, _neg |-> FALSE]
DeclaredFilters ==
    {PlainFilter, NegFilter, NegWildFilter, WildFilter, MixedWildFilter}

\* int | int on the two-bit enum values
BitOr(a, b) ==
    (IF a % 2 = 1 \/ b % 2 = 1 THEN 1 ELSE 0)
    + 2 * (IF (a \div 2) % 2 = 1 \/ (b \div 2) % 2 = 1 THEN 1 ELSE 0)

qMax(a, b) == IF a < b THEN b ELSE a
qMin(a, b) == IF b < a THEN b ELSE a

\* Range(min, max) and Range::contains
Range(lo, hi) == [min |-> lo, max |-> hi]
contains(r, v) == v >= r.min /\ v <= r.max

\* Rule() : _type(AnyType), _closed(AnyClosed), _zooms(0, 127) {}
DefaultRule ==
    [_type |-> AnyType, _closed |-> AnyClosed,
     _zooms |-> Range(DefaultMinZoom, DefaultMaxZoom), _filters |-> <<>>]

\* mutant: the declared type replaces the inherited one
setTypeAssign(r, type) == [r EXCEPT !._type = type]

setType(r, type) == [r EXCEPT !._type = BitOr(type, r._type)]

\* mutant: the declared closed constraint replaces the inherited one
setClosedAssign(r, closed) == [r EXCEPT !._closed = closed]

setClosed(r, closed) == [r EXCEPT !._closed = BitOr(closed, r._closed)]

\* mutant: the declared minimum replaces the inherited one
setMinZoomAssign(r, zoom) == [r EXCEPT !._zooms.min = zoom]

setMinZoom(r, zoom) == [r EXCEPT !._zooms.min = qMax(zoom, r._zooms.min)]

setMaxZoom(r, zoom) == [r EXCEPT !._zooms.max = qMin(zoom, r._zooms.max)]

\* mutant: every filter is stored
addFilterAlways(r, f) == [r EXCEPT !._filters = Append(r._filters, f)]

addFilter(r, f) ==
    IF ~isTautology(f)
        THEN [r EXCEPT !._filters = Append(r._filters, f)]
        ELSE r

\* Rule::match(tags): every stored filter matches
FiltersMatch(r, t) ==
    \A i \in 1..Len(r._filters) : match(r._filters[i], t)

\* the type and closed tests of Rule::match: no constraint, or the very kind
TypeAccepts(r, type) == r._type = AnyType \/ r._type = type
ClosedAccepts(r, closed) == r._closed = AnyClosed \/ r._closed = closed

\* Rule::match(zoom, type, closed, tags)
RuleMatch(r, zoom, type, closed, t) ==
    /\ contains(r._zooms, zoom)
    /\ TypeAccepts(r, type)
    /\ ClosedAccepts(r, closed)
    /\ FiltersMatch(r, t)

-----------------------------------------------------------------------------
(* Data::Data(fileName, poi) *)

\* the keys of the parser map, in QMap (ascending key) order; the json and
\* geojson entries exist in builds with ENABLE_GEOJSON
ParserKeys(withGeoJson) ==
    IF withGeoJson
        THEN <<"csv", "cup", "fit", "geojson", "gpi", "gpx", "igc", "jpeg",
               "jpg", "json", "kml", "loc", "nmea", "plt", "rte", "slf",
               "sml", "tcx", "wpt">>
        ELSE <<"csv", "cup", "fit", "gpi", "gpx", "igc", "jpeg", "jpg",
               "kml", "loc", "nmea", "plt", "rte", "slf", "sml", "tcx",
               "wpt">>

\* the parser object a key maps to: jpeg and jpg share exif, json and
\* geojson share geojson, every other key has a parser of its own
ParserOf(key) ==
    CASE key \in {"jpeg", "jpg"} -> "exif"
      [] key \in {"json", "geojson"} -> "geojson"
      [] OTHER -> key

KeyIndex(keys, key) == CHOOSE i \in 1..Len(keys) : keys[i] = key

ParserObjects(withGeoJson) ==
    {ParserOf(ParserKeys(withGeoJson)[i]) :
        i \in 1..Len(ParserKeys(withGeoJson))}

\* QString::toLower on the suffixes the model draws
toLower(s) ==
    CASE s = "GPX" -> "gpx"
      [] s = "Jpg" -> "jpg"
      [] s = "JSON" -> "json"
      [] OTHER -> s

Suffixes == {"gpx", "GPX", "Jpg", "jpeg", "kml", "JSON", "wpt", "txt", ""}

\* what a parser reports after a failed parse: a line number and a message
\* of its own
ParserErrorLine(p) ==
    KeyIndex(ParserKeys(TRUE), CHOOSE k \in RangeOf(ParserKeys(TRUE)) :
                                   ParserOf(k) = p)
ParserErrorString(p) == p

\* Parser::parse on the opened file
parse(p) == p \in accepts

\* if (!poi) processData(...); _valid = true; return;
Succeed ==
    /\ processed' = ~poi
    /\ _valid' = TRUE
    /\ pc' = "done"

\* _valid = false; _errorLine = 0; file.open fails: error string, return
Open ==
    /\ pc = "start"
    /\ IF ~opens
          THEN /\ _errorString' = "open failed"
               /\ pc' = "done"
          ELSE /\ pc' = "find"
               /\ UNCHANGED _errorString
    /\ _valid' = FALSE
    /\ _errorLine' = 0
    /\ UNCHANGED <<suffix, accepts, poi, opens, geojson, it, tried, processed>>

\* mutant: a failed parse of the suffix's parser falls through to the loop
FindFallThrough ==
    /\ pc = "find"
    /\ IF toLower(suffix) \in RangeOf(ParserKeys(geojson))
          THEN /\ tried' = Append(tried, toLower(suffix))
               /\ IF parse(ParserOf(toLower(suffix)))
                     THEN /\ Succeed
                          /\ UNCHANGED <<_errorLine, _errorString, it>>
                     ELSE /\ pc' = "loop"
                          /\ it' = 1
                          /\ UNCHANGED <<_errorLine, _errorString, _valid,
                                         processed>>
          ELSE /\ pc' = "loop"
               /\ it' = 1
               /\ UNCHANGED <<tried, processed, _valid, _errorLine,
                              _errorString>>
    /\ UNCHANGED <<suffix, accepts, poi, opens, geojson>>

\* it = _parsers.find(fi.suffix().toLower()): a registered suffix has its
\* parser called, and a failure ends the constructor with that parser's error
Find ==
    /\ pc = "find"
    /\ IF toLower(suffix) \in RangeOf(ParserKeys(geojson))
          THEN /\ tried' = Append(tried, toLower(suffix))
               /\ it' = KeyIndex(ParserKeys(geojson), toLower(suffix))
               /\ IF parse(ParserOf(toLower(suffix)))
                     THEN /\ Succeed
                          /\ UNCHANGED <<_errorLine, _errorString>>
                     ELSE /\ _errorLine' =
                                ParserErrorLine(ParserOf(toLower(suffix)))
                          /\ _errorString' =
                                ParserErrorString(ParserOf(toLower(suffix)))
                          /\ pc' = "done"
                          /\ UNCHANGED <<_valid, processed>>
          ELSE /\ pc' = "loop"
               /\ it' = 1
               /\ UNCHANGED <<tried, processed, _valid, _errorLine,
                              _errorString>>
    /\ UNCHANGED <<suffix, accepts, poi, opens, geojson>>

\* one iteration of for (it = _parsers.begin(); it != _parsers.end(); it++)
TryNext ==
    /\ pc = "loop"
    /\ it <= Len(ParserKeys(geojson))
    /\ tried' = Append(tried, ParserKeys(geojson)[it])
    /\ IF parse(ParserOf(ParserKeys(geojson)[it]))
          THEN /\ Succeed
               /\ UNCHANGED it
          ELSE /\ it' = it + 1
               /\ UNCHANGED <<pc, _valid, processed>>
    /\ UNCHANGED <<suffix, accepts, poi, opens, geojson, _errorLine,
                   _errorString>>

\* the loop ended: _errorLine = 0; _errorString = "Unknown format";
GiveUp ==
    /\ pc = "loop"
    /\ it > Len(ParserKeys(geojson))
    /\ _errorLine' = 0
    /\ _errorString' = "Unknown format"
    /\ pc' = "done"
    /\ UNCHANGED <<suffix, accepts, poi, opens, geojson, it, tried, processed,
                   _valid>>

-----------------------------------------------------------------------------
(* The three specifications *)

FilterIdle ==
    /\ filter = WildFilter
    /\ tags = <<>>
    /\ matchResult = <<>>
    /\ tautResult = <<>>

RuleIdle ==
    /\ rule = DefaultRule
    /\ parent = DefaultRule
    /\ declTypeBits = {}
    /\ declClosedBits = {}
    /\ declMins = {}
    /\ declMaxs = {}
    /\ added = <<>>

DataIdle ==
    /\ suffix = ""
    /\ accepts = {}
    /\ poi = FALSE
    /\ opens = FALSE
    /\ geojson = FALSE
    /\ pc = "idle"
    /\ it = 0
    /\ tried = <<>>
    /\ processed = FALSE
    /\ _valid = FALSE
    /\ _errorLine = 0
    /\ _errorString = ""

(* FilterSpec: Filter::match and Filter::isTautology on every filter and tag
   vector within the bounds *)

FilterInit ==
    /\ filter \in Filters
    /\ tags \in TagVectors
    /\ matchResult = <<>>
    /\ tautResult = <<>>
    /\ RuleIdle
    /\ DataIdle

CallMatch ==
    /\ matchResult = <<>>
    /\ matchResult' = <<match(filter, tags)>>
    /\ UNCHANGED <<filter, tags, tautResult, rvars, dvars>>

CallIsTautology ==
    /\ tautResult = <<>>
    /\ tautResult' = <<isTautology(filter)>>
    /\ UNCHANGED <<filter, tags, matchResult, rvars, dvars>>

FilterNext == CallMatch \/ CallIsTautology

FilterSpec == FilterInit /\ [][FilterNext]_vars

(* Spec: a rule element is compiled from a copy of its parent's rule by
   setType, setClosed, setMinZoom and setMaxZoom; the root rule is Rule() with
   the filters its element declared *)

Bits(x) == {i \in 0..1 : (x \div (2 ^ i)) % 2 = 1}

Init ==
    /\ \E fs \in SeqsUpTo({PlainFilter, NegWildFilter}, 1) :
          rule = [DefaultRule EXCEPT !._filters = fs]
    /\ parent = rule
    /\ declTypeBits = {}
    /\ declClosedBits = {}
    /\ declMins = {}
    /\ declMaxs = {}
    /\ added = <<>>
    /\ FilterIdle
    /\ DataIdle

SetType(type) ==
    /\ rule' = setType(rule, type)
    /\ declTypeBits' = declTypeBits \cup Bits(type)
    /\ UNCHANGED <<parent, declClosedBits, declMins, declMaxs, added, fvars,
                   dvars>>

SetClosed(closed) ==
    /\ rule' = setClosed(rule, closed)
    /\ declClosedBits' = declClosedBits \cup Bits(closed)
    /\ UNCHANGED <<parent, declTypeBits, declMins, declMaxs, added, fvars,
                   dvars>>

SetMinZoom(zoom) ==
    /\ rule' = setMinZoom(rule, zoom)
    /\ declMins' = declMins \cup {zoom}
    /\ UNCHANGED <<parent, declTypeBits, declClosedBits, declMaxs, added,
                   fvars, dvars>>

SetMaxZoom(zoom) ==
    /\ rule' = setMaxZoom(rule, zoom)
    /\ declMaxs' = declMaxs \cup {zoom}
    /\ UNCHANGED <<parent, declTypeBits, declClosedBits, declMins, added,
                   fvars, dvars>>

\* a nested rule element: Rule r(parent), the rule compiled so far being
\* the parent
Descend ==
    /\ parent' = rule
    /\ rule' = rule
    /\ declTypeBits' = {}
    /\ declClosedBits' = {}
    /\ declMins' = {}
    /\ declMaxs' = {}
    /\ added' = <<>>
    /\ UNCHANGED <<fvars, dvars>>

Next ==
    \/ \E type \in DeclaredTypes : SetType(type)
    \/ \E closed \in DeclaredCloseds : SetClosed(closed)
    \/ \E zoom \in DeclaredZooms : SetMinZoom(zoom)
    \/ \E zoom \in DeclaredZooms : SetMaxZoom(zoom)
    \/ Descend

Spec == Init /\ [][Next]_vars

(* FilterListSpec: the filter list of a rule grows by addFilter, from the
   root rule Rule() down the nested rule elements *)

FilterListInit ==
    /\ RuleIdle
    /\ FilterIdle
    /\ DataIdle

AddFilter(f) ==
    /\ Len(rule._filters) < MaxFilters
    /\ Len(added) < MaxFilters
    /\ rule' = addFilter(rule, f)
    /\ added' = Append(added, f)
    /\ UNCHANGED <<parent, declTypeBits, declClosedBits, declMins, declMaxs,
                   fvars, dvars>>

FilterListNext ==
    \/ \E f \in DeclaredFilters : AddFilter(f)
    \/ Descend

FilterListSpec == FilterListInit /\ [][FilterListNext]_vars

(* DataSpec: one call of the Data constructor *)

DataInit ==
    /\ suffix \in Suffixes
    /\ geojson \in BOOLEAN
    /\ accepts \in {a \in SUBSET ParserObjects(geojson) :
                        Cardinality(a) <= MaxAccepting}
    /\ poi \in BOOLEAN
    /\ opens \in BOOLEAN
    /\ pc = "start"
    /\ it = 0
    /\ tried = <<>>
    /\ processed = FALSE
    /\ _valid = FALSE
    /\ _errorLine = 0
    /\ _errorString = ""
    /\ FilterIdle
    /\ RuleIdle

DataNext ==
    \/ Open /\ UNCHANGED <<fvars, rvars>>
    \/ Find /\ UNCHANGED <<fvars, rvars>>
    \/ TryNext /\ UNCHANGED <<fvars, rvars>>
    \/ GiveUp /\ UNCHANGED <<fvars, rvars>>

DataSpec == DataInit /\ [][DataNext]_vars

-----------------------------------------------------------------------------
(* Properties of Filter::match, under FilterSpec *)

\* some candidate key is the wildcard or is the key of some tag
SomeKeyMatches(f, t) ==
    \E k \in RangeOf(f._keys) :
        k = WildKey \/ k \in {tg.key : tg \in RangeOf(t)}

\* some candidate value is the wildcard or is the value of some tag
SomeValueMatches(f, t) ==
    \E v \in RangeOf(f._vals) :
        v = WildVal \/ v \in {tg.value : tg \in RangeOf(t)}

\* some tag has a key that a candidate key names (the wildcard names any)
KeyPresent(f, t) ==
    \E tg \in RangeOf(t) :
        WildKey \in RangeOf(f._keys) \/ tg.key \in RangeOf(f._keys)

\* some tag has a value that a candidate value names (the wildcard names any)
ValuePresent(f, t) ==
    \E tg \in RangeOf(t) :
        WildVal \in RangeOf(f._vals) \/ tg.value \in RangeOf(f._vals)

HasWildcard(f) == WildKey \in RangeOf(f._keys) \/ WildVal \in RangeOf(f._vals)

\* C1: a non-negated filter matches exactly when some candidate key is the
\* wildcard or the key of some tag, and some candidate value is the wildcard
\* or the value of some tag, each test on its own.
C1_NonNegatedMatch ==
    (matchResult # <<>> /\ ~filter._neg) =>
        matchResult[1] =
            (SomeKeyMatches(filter, tags) /\ SomeValueMatches(filter, tags))

\* C2: a negated filter matches whenever none of its keys is present in the
\* tags, whatever its values; when a key is present the result is the value
\* test, so it is false when no declared value is the value of a tag.
C2_NegatedMatch ==
    (matchResult # <<>> /\ filter._neg) =>
        /\ ~KeyPresent(filter, tags) => matchResult[1]
        /\ KeyPresent(filter, tags) =>
              matchResult[1] = ValuePresent(filter, tags)

\* C2 witness: a negated filter whose key is present and whose values are
\* not: the call returned false
C2_Witness ==
    /\ filter._neg
    /\ KeyPresent(filter, tags)
    /\ ~ValuePresent(filter, tags)
    /\ matchResult = <<FALSE>>

\* C3: a filter whose keys and values are the wildcard matches every tag
\* vector, the empty one included.
C3_WildcardMatchesAll ==
    (/\ matchResult # <<>>
     /\ RangeOf(filter._keys) = {WildKey}
     /\ RangeOf(filter._vals) = {WildVal}) => matchResult[1]

\* C4 as stated: on the empty tag vector only filters with a wildcard key or
\* a wildcard value match, negated or not.
C4_EmptyTagsOnlyWildcards ==
    (matchResult # <<>> /\ tags = <<>> /\ matchResult[1]) =>
        HasWildcard(filter)

\* C4 as amended: on the empty tag vector a non-negated filter without
\* wildcards does not match, and every negated filter matches.
C4_EmptyTags ==
    (matchResult # <<>> /\ tags = <<>>) =>
        /\ (~filter._neg /\ ~HasWildcard(filter)) => ~matchResult[1]
        /\ filter._neg => matchResult[1]

\* C4 witness: a negated filter without wildcards matched the empty vector
C4_Witness ==
    /\ tags = <<>>
    /\ filter._neg
    /\ ~HasWildcard(filter)
    /\ filter._vals # <<>>
    /\ matchResult = <<TRUE>>

-----------------------------------------------------------------------------
(* Properties of the composition of rules, under Spec *)

SetMax(S) == CHOOSE x \in S : \A y \in S : y <= x
SetMin(S) == CHOOSE x \in S : \A y \in S : x <= y

\* the feature kinds a rule's type and closed constraints let through
AcceptedKinds(r) ==
    {k \in FeatureTypes \X FeatureCloseds :
        TypeAccepts(r, k[1]) /\ ClosedAccepts(r, k[2])}

\* C5: a child declaring WayType under a NodeType parent has the type
\* InvalidType and matches neither a node nor a way, at any zoom, closed
\* flag and tag vector.
C5_NodeWayMatchesNothing ==
    (parent._type = NodeType /\ Bits(WayType) \subseteq declTypeBits) =>
        /\ rule._type = InvalidType
        /\ \A zoom \in ProbeZooms, type \in FeatureTypes,
              closed \in FeatureCloseds, t \in TagVectors :
                ~RuleMatch(rule, zoom, type, closed, t)

\* C5 witness: WayType was declared under a NodeType parent whose other
\* constraints let every feature through
C5_Witness ==
    /\ parent._type = NodeType
    /\ Bits(WayType) \subseteq declTypeBits
    /\ rule._closed = AnyClosed
    /\ rule._zooms = Range(DefaultMinZoom, DefaultMaxZoom)
    /\ rule._filters = <<>>

\* C6: the rule's type (closed) is the bitwise OR of its parent's and of
\* every declared one: no bit is ever cleared, a restricted constraint never
\* returns to Any, and the kinds the rule accepts are among its parent's.
C6_ConstraintsOnlyNarrow ==
    /\ Bits(rule._type) = Bits(parent._type) \cup declTypeBits
    /\ Bits(rule._closed) = Bits(parent._closed) \cup declClosedBits
    /\ parent._type # AnyType => rule._type # AnyType
    /\ parent._closed # AnyClosed => rule._closed # AnyClosed
    /\ AcceptedKinds(rule) \subseteq AcceptedKinds(parent)

\* C6 witness: the parent is restricted to closed nodes, the child declared
\* NoClosed and accepts nothing
C6_Witness ==
    /\ parent._type = NodeType
    /\ parent._closed = YesClosed
    /\ declClosedBits = Bits(NoClosed)
    /\ rule._closed = InvalidClosed
    /\ AcceptedKinds(parent) # {}
    /\ AcceptedKinds(rule) = {}

\* C7: the rule's zoom range is the parent's intersected with every declared
\* one: min is the greatest of the parent's min and the declared mins, max
\* the least of the parent's max and the declared maxes; a range with
\* min > max is a state like any other and contains no zoom level.
C7_ZoomIntersection ==
    /\ rule._zooms.min = SetMax({parent._zooms.min} \cup declMins)
    /\ rule._zooms.max = SetMin({parent._zooms.max} \cup declMaxs)
    /\ rule._zooms.min >= parent._zooms.min
    /\ rule._zooms.max <= parent._zooms.max
    /\ rule._zooms.min > rule._zooms.max =>
          \A zoom \in ZoomLevels : ~contains(rule._zooms, zoom)

\* C7 witness: a lower min declared after a higher one, and an empty range
C7_Witness ==
    /\ declMins = DeclaredZooms
    /\ declMaxs # {}
    /\ rule._zooms.min > rule._zooms.max
    /\ parent._zooms.min <= parent._zooms.max

-----------------------------------------------------------------------------
(* Properties of the filter list, under FilterListSpec *)

NotTautology(f) == ~isTautology(f)

\* C8: the stored filters are the parent's followed, in call order, by the
\* added filters that are no tautology; no stored filter is a tautology.
C8_StoredFilters ==
    /\ rule._filters = parent._filters \o SelectSeq(added, NotTautology)
    /\ \A i \in 1..Len(rule._filters) : ~isTautology(rule._filters[i])

\* C8 witness: below a parent with filters, a tautology and another filter
\* were added
C8_Witness ==
    /\ parent._filters # <<>>
    /\ \E i, j \in 1..Len(added) :
          isTautology(added[i]) /\ ~isTautology(added[j])

\* C9: dropping the tautologies changes nothing: for every tag vector the
\* stored filters all match exactly when the parent's filters and every
\* added filter match.
C9_DropKeepsMatch ==
    \A t \in TagVectors :
        FiltersMatch(rule, t) =
            (/\ FiltersMatch(parent, t)
             /\ \A i \in 1..Len(added) : match(added[i], t))

-----------------------------------------------------------------------------
(* Properties of the Data constructor, under DataSpec *)

Accepted(key) == ParserOf(key) \in accepts

\* C10: once the constructor returned on an opened file, the object is valid
\* exactly when a tried parser accepted the file; a registered suffix has only
\* its parser tried and a failure leaves that parser's error; otherwise the
\* parsers are tried in key order up to the first success, and when all fail
\* the error is line 0, "Unknown format".
C10_ParserDispatch ==
    (pc = "done" /\ opens) =>
        LET keys == ParserKeys(geojson)
            s == toLower(suffix)
        IN  /\ _valid = (\E i \in 1..Len(tried) : Accepted(tried[i]))
            /\ s \in RangeOf(keys) =>
                  /\ tried = <<s>>
                  /\ ~_valid =>
                        /\ _errorLine = ParserErrorLine(ParserOf(s))
                        /\ _errorString = ParserErrorString(ParserOf(s))
            /\ s \notin RangeOf(keys) =>
                  /\ Len(tried) <= Len(keys)
                  /\ tried = SubSeq(keys, 1, Len(tried))
                  /\ \A i \in 1..(Len(tried) - 1) : ~Accepted(tried[i])
                  /\ ~_valid =>
                        /\ tried = keys
                        /\ _errorLine = 0
                        /\ _errorString = "Unknown format"

\* C10 witness: the suffix's parser failed on a file another parser accepts
C10_Witness ==
    /\ pc = "done"
    /\ opens
    /\ toLower(suffix) \in RangeOf(ParserKeys(geojson))
    /\ suffix # toLower(suffix)
    /\ accepts # {}
    /\ ~_valid

====
